---- MODULE Spec2Model ----
(***************************************************************************)
(* cobitis-esp32c3: the three periodic workers of src/main.rs (display,    *)
(* network, measurements), the two snapshot caches VALUES and STATUS, the  *)
(* HTTP handler that reads VALUES from the server's own thread, the retry  *)
(* loop of read_temperature, the classification of the RSSI and the tokio  *)
(* interval with MissedTickBehavior::Skip.                                 *)
(*                                                                         *)
(* The three workers are the branches of one select! in one task: the     *)
(* variable running names the branch the task is executing, from the poll  *)
(* that resumes it to its next pending .await; the HTTP handler runs on    *)
(* the HTTP server's thread and interleaves with it freely (Spec).         *)
(*                                                                         *)
(* Specifications on variables of their own: one interval (TickSpec), one  *)
(* call of from_rssi (RssiSpec, Rssi32Spec), one draw and one GET request  *)
(* from what get() returned (ConsumerSpec), the connectivity loop with     *)
(* connect_and_wait step by step (NetSpec).                                *)
(***************************************************************************)
EXTENDS Integers, Sequences, FiniteSets, TLC

\* ---------------------------------------------------------------- constants
\* a retry loop that runs once more
RetryOneMore == 3 + 1

RETRY_COUNT == 3
DELAY == 10
\* ds18b20::FAMILY_CODE (0x28) and the delay after a scan that found none, in ms
FAMILY_CODE == 40
SCAN_DELAY == 1000
\* a wait that polls once more
MaxTimeoutOneMore == 10000 \div 10 + 1
MAX_TIMEOUT == 10000 \div DELAY
PERIOD_MEASUREMENTS == 5
PERIOD_NETWORK == 5
PERIOD_DISPLAY == 1

\* ------------------------------------------------------------------- bounds
\* cap of the counter of consecutive failed cycles
MaxFails == 2
\* horizon of the clock of the interval specification
MaxTime == 22
\* width of the RSSI range of the classification specification
MaxRssiMagnitude == 200

Workers == {"display", "network", "measurements"}
Producers == {"network", "measurements"}
Caches == {"VALUES", "STATUS"}
\* readers of the caches: the display worker and the task of the HTTP server,
\* which runs the GET handler of one request at a time
DisplayReader == "display"
Handlers == {"http"}
Readers == {DisplayReader} \cup Handlers

\* inputs: Utc::now() in ms, DS18B20 readings in 1/16 degC, ADS1115 codes, RSSI in dBm
Timestamps == {1}
TempRaws == {325, 400}
AdcRaws == {3403}
RssiInputs == {-50, -86}

\* producers that write each other's cache
CacheOf_Swapped(w) == IF w = "measurements" THEN "STATUS" ELSE "VALUES"

\* the static a producer's update writes
CacheOf(w) == IF w = "measurements" THEN "VALUES" ELSE "STATUS"

\* the words of an Option<Values> / Option<Status>, in the order they are copied
Fields(c) ==
    IF c = "VALUES" THEN <<"tag", "timestamp", "temperature", "tds">>
    ELSE <<"tag", "signal_quality">>

NoneOf(c) ==
    IF c = "VALUES"
    THEN [tag |-> "None", timestamp |-> 0, temperature |-> 0, tds |-> 0]
    ELSE [tag |-> "None", signal_quality |-> "Unreliable"]

\* the Option a copy of the cache's words denotes: the payload of None is ignored
Opt(c, words) == IF words.tag = "None" THEN NoneOf(c) ELSE words

VARIABLES
    pc,         \* pc[w]: where worker w is
    running,    \* the branch of select! the main task is executing, or "none"
    exited,     \* main has returned
    result,     \* what main returned
    due,        \* due[w]: the deadline of w's interval has passed
    cache,      \* cache[c]: the words of the static VALUES / STATUS
    wr,         \* wr[c]: the writer's side of the RwLock: "free", "queued", "held"
    rdHeld,     \* rdHeld[c]: the readers holding a read guard
    rd,         \* rd[r]: the get() reader r is in
    wstep,      \* wstep[w]: the next word producer w stores
    pending,    \* pending[w]: the value producer w's cycle built
    attempt,    \* read_temperature: the loop counter
    err,        \* read_temperature: err
    tlog,       \* read_temperature: what each attempt of this cycle did
    tempRes,    \* the result of the last read_temperature
    lastOk,     \* lastOk[c]: the value of the last completed write
    fails,      \* fails[w]: consecutive failed cycles of producer w
    local,      \* the display's copies of the two caches (m and v of draw)
    scan,       \* init_ds18b20: the scans made, what each found, the delays
    \* one interval of tokio::time, on a clock of its own (TickSpec)
    tworker,    \* the worker the interval belongs to
    tnow,       \* Instant::now(), in seconds since the interval was made
    deadline,   \* the deadline of the interval's delay
    tpc,        \* "tick": the loop is in tick().await; "work": it is in its cycle
    lastAct,    \* when tick() last completed (-1: never)
    prevAct,    \* when tick() completed the time before (-1: never)
    \* one call of SignalQuality::from_rssi (RssiSpec)
    rssiIn,     \* the argument
    quality,    \* the SignalQuality returned ("none": not called yet)
    level,      \* i32::from(quality)
    \* one draw() of the display and one GET request (ConsumerSpec)
    drawM,      \* what measurements::get() returned to the consumer
    drawV,      \* what network::get() returned to draw
    frame,      \* the frame buffer of the display
    response,   \* the response of the GET handler
    \* the connectivity loop on its own, connect_and_wait step by step (NetSpec)
    npc,        \* where network::worker is
    ntimeout,   \* connect_and_wait: timeout
    ndns,       \* connect_and_wait: what the last look at the DNS address saw
    nstatus,    \* the static STATUS
    nres,       \* how the last cycle ended ("none": no cycle has ended)
    nlog        \* what this cycle has done so far

mainVars == <<pc, running, exited, result, due, cache, wr, rdHeld, rd, wstep,
              pending, attempt, err, tlog, tempRes, lastOk, fails, local, scan>>
tickVars == <<tworker, tnow, deadline, tpc, lastAct, prevAct>>
rssiVars == <<rssiIn, quality, level>>
consVars == <<drawM, drawV, frame, response>>
netVars == <<npc, ntimeout, ndns, nstatus, nres, nlog>>
vars == <<mainVars, tickVars, rssiVars, consVars, netVars>>

\* what the actions of one specification leave alone
notMain == <<tickVars, rssiVars, consVars, netVars>>
notTick == <<mainVars, rssiVars, consVars, netVars>>
notRssi == <<mainVars, tickVars, consVars, netVars>>
notCons == <<mainVars, tickVars, rssiVars, netVars>>
notNet == <<mainVars, tickVars, rssiVars, consVars>>

\* ----------------------------------------------------------- pure functions
Clamp(x, lo, hi) == IF x < lo THEN lo ELSE IF x > hi THEN hi ELSE x

\* -x on an i32 (release build: the negation of i32::MIN wraps to itself)
I32_MIN == -2147483647 - 1
I32_MAX == -(I32_MIN + 1)
Neg32(x) == IF x = I32_MIN THEN I32_MIN ELSE -x

\* a classification whose Poor band ends one dBm early
from_rssi_PoorEndsEarly(rssi) ==
    LET r == Clamp(Neg32(rssi), 0, 100) IN
    IF r >= 0 /\ r <= 50 THEN "Excellent"
    ELSE IF r >= 51 /\ r <= 60 THEN "Good"
    ELSE IF r >= 61 /\ r <= 70 THEN "Fair"
    ELSE IF r >= 71 /\ r < 85 THEN "Poor"
    ELSE "Unreliable"

from_rssi(rssi) ==
    LET r == Clamp(Neg32(rssi), 0, 100) IN
    IF r >= 0 /\ r <= 50 THEN "Excellent"
    ELSE IF r >= 51 /\ r <= 60 THEN "Good"
    ELSE IF r >= 61 /\ r <= 70 THEN "Fair"
    ELSE IF r >= 71 /\ r <= 85 THEN "Poor"
    ELSE "Unreliable"

\* impl From<SignalQuality> for i32
QualityToI32(q) ==
    CASE q = "Unreliable" -> 0
      [] q = "Poor" -> 1
      [] q = "Fair" -> 2
      [] q = "Good" -> 3
      [] q = "Excellent" -> 4

\* ------------------------------------------------- what the consumers show
\* text is a sequence of characters
RECURSIVE Digits(_)
Digits(n) ==
    LET d == <<"0", "1", "2", "3", "4", "5", "6", "7", "8", "9">>[(n % 10) + 1]
    IN IF n < 10 THEN <<d>> ELSE Append(Digits(n \div 10), d)

RECURSIVE PadLeft(_, _)
PadLeft(text, width) ==
    IF Len(text) >= width THEN text ELSE PadLeft(<<" ">> \o text, width)

Abs(x) == IF x < 0 THEN -x ELSE x
Sign(x) == IF x < 0 THEN <<"-">> ELSE <<>>

\* format!("{v:>7.1}") of a temperature given in tenths of a degree
FormatTemperature(t10) ==
    PadLeft(Sign(t10) \o Digits(Abs(t10) \div 10) \o <<".">> \o Digits(Abs(t10) % 10), 7)

\* format!("{v:>7.0}") of a TDS value (read_tds returns a rounded value)
FormatTds(tds) == PadLeft(Sign(tds) \o Digits(Abs(tds)), 7)

\* the placeholders of draw: "    -.-" and "      -"
NoTemperatureText == <<" ", " ", " ", " ", "-", ".", "-">>
NoTdsText == <<" ", " ", " ", " ", " ", " ", "-">>

\* v.map(|v| v.signal_quality).unwrap_or_default().into(); #[default] Unreliable
SignalLevel(v) ==
    QualityToI32(IF v.tag = "Some" THEN v.signal_quality ELSE "Unreliable")

\* for i in 1..=signal_level: Line::new(Point::new(x, y), Point::new(x, 11))
SignalBars(signal_level) ==
    {[x |-> 107 + i * 2, y |-> 12 - i * 2] : i \in 1..signal_level}

\* the frame draw composes from the two copies it took
Render(m, v) ==
    [temperature |-> IF m.tag = "Some" THEN FormatTemperature(m.temperature)
                     ELSE NoTemperatureText,
     tds |-> IF m.tag = "Some" THEN FormatTds(m.tds) ELSE NoTdsText,
     bars |-> SignalBars(SignalLevel(v)),
     state |-> "drawn"]

\* impl From<measurements::Values> for Message, serialized by serde_json in the
\* order of the fields; tds as i32 (read_tds returns a rounded value that fits)
MessageFrom(value) ==
    <<[key |-> "timestamp", value |-> value.timestamp],
      [key |-> "temperature", value |-> value.temperature],
      [key |-> "tds", value |-> Clamp(value.tds, I32_MIN, I32_MAX)]>>

NO_CONTENT == 204
OK == 200

\* a handler that answers the empty cache with a zeroed payload
Respond_ZeroPayload(m) ==
    [status |-> OK, body |-> MessageFrom(m)]

\* the match of the GET handler on what measurements::get() returned
Respond(m) ==
    IF m.tag = "Some" THEN [status |-> OK, body |-> MessageFrom(m)]
    ELSE [status |-> NO_CONTENT, body |-> <<>>]

\* (data.temperature * 10.0).round() / 10.0, in tenths of a degree; the sensor
\* reports sixteenths of a degree and round() rounds half away from zero
RoundTemperature(raw16) ==
    IF raw16 >= 0 THEN (raw16 * 20 + 16) \div 32
    ELSE -((-raw16 * 20 + 16) \div 32)

\* read_tds after the ADC read, in fixed point: raw code -> mV, temperature
\* compensation, the calibration cubic, round(); temperature in tenths
TdsOf(raw, t10) ==
    LET mv == (raw * 4096) \div 32767
        coefficient == 1000 + 2 * (t10 - 250)
        v == (mv * 1000) \div coefficient
        v2 == (v * v) \div 1000
        v3 == (v2 * v) \div 1000
        n == 13342 * v3 - 25586 * v2 + 85739 * v
    IN (n + 100000) \div 200000

\* init_ds18b20: scans[i] says whether scan i finds a device of the family
RECURSIVE ScanFrom(_, _)
ScanFrom(scans, i) ==
    IF i > RETRY_COUNT THEN [ok |-> FALSE, scans |-> RETRY_COUNT]
    ELSE IF scans[i] THEN [ok |-> TRUE, scans |-> i]
    ELSE ScanFrom(scans, i + 1)

init_ds18b20(scans) == ScanFrom(scans, 1)

\* connect_and_wait: connectOk is the outcome of wifi.connect(); the DNS address
\* is specified from the readyAt-th look of the while loop on (looks are counted
\* from 0, one FreeRtos::delay_ms(DELAY) between two looks). The loop leaves with
\* Ok at look readyAt if that look happens, and with the timeout error after
\* delay number MAX_TIMEOUT otherwise; delays counts the delays made.
WaitDns(readyAt) ==
    IF readyAt < MAX_TIMEOUT THEN [ok |-> TRUE, delays |-> readyAt]
    ELSE [ok |-> FALSE, delays |-> MAX_TIMEOUT]

connect_and_wait(connectOk, readyAt) ==
    IF ~connectOk THEN [ok |-> FALSE, delays |-> 0] ELSE WaitDns(readyAt)

DnsReadyAts == {0, MAX_TIMEOUT}

\* --------------------------------------------------- tokio::time::Interval
PeriodOf(w) ==
    CASE w = "display" -> PERIOD_DISPLAY
      [] w = "network" -> PERIOD_NETWORK
      [] w = "measurements" -> PERIOD_MEASUREMENTS

\* MissedTickBehavior::Burst: the next tick is due one period after the last
next_timeout_Burst(timeout, now, period) == timeout + period

\* MissedTickBehavior::Skip: the next multiple of period from the start
next_timeout(timeout, now, period) ==
    now + period - ((now - timeout) % period)

\* Interval::poll_tick, once the delay has elapsed: the deadline of the next
\* tick (the 5 ms of grace are below the resolution of the clock)
NextDeadline(timeout, now, period) ==
    IF now > timeout THEN next_timeout(timeout, now, period)
    ELSE timeout + period

\* ---------------------------------------------------------------- the state
NoTemp == [ok |-> FALSE, val |-> 0]
NoScan(st) == [st |-> st, log |-> <<>>, waited |-> 0]

\* caches that start from a default value instead of None
InitialCache_Default == [c \in Caches |-> [NoneOf(c) EXCEPT !.tag = "Some"]]

\* static VALUES / STATUS: RwLock::const_new(None)
InitialCache == [c \in Caches |-> NoneOf(c)]

MainInit ==
    /\ pc = [w \in Workers |-> "start"]
    /\ running = "none"
    /\ exited = FALSE
    /\ result = [worker |-> "none", value |-> "none"]
    /\ due = [w \in Workers |-> FALSE]
    /\ cache = InitialCache
    /\ wr = [c \in Caches |-> "free"]
    /\ rdHeld = [c \in Caches |-> {}]
    /\ rd = [r \in Readers |-> [c |-> "VALUES", st |-> "idle", k |-> 0,
                                buf |-> NoneOf("VALUES"),
                                seen |-> NoneOf("VALUES")]]
    /\ wstep = [w \in Producers |-> 0]
    /\ pending = [w \in Producers |-> NoneOf(CacheOf(w))]
    /\ attempt = 0
    /\ err = 0
    /\ tlog = <<>>
    /\ tempRes = NoTemp
    /\ lastOk = [c \in Caches |-> NoneOf(c)]
    /\ fails = [w \in Producers |-> 0]
    /\ local = [c \in Caches |-> NoneOf(c)]
    /\ scan = NoScan("idle")

\* the interval and the classification at rest
TickIdle ==
    /\ tworker = "display" /\ tnow = 0 /\ deadline = 0 /\ tpc = "tick"
    /\ lastAct = -1 /\ prevAct = -1

RssiIdle == rssiIn = 0 /\ quality = "none" /\ level = -1

\* the consumers at rest: nothing drawn, nothing answered
BlankFrame == [temperature |-> <<>>, tds |-> <<>>, bars |-> {}, state |-> "blank"]
NoResponse == [status |-> 0, body |-> <<>>]

ConsIdle ==
    /\ drawM = NoneOf("VALUES") /\ drawV = NoneOf("STATUS")
    /\ frame = BlankFrame /\ response = NoResponse

\* the connectivity loop at rest
NetIdle ==
    /\ npc = "idle" /\ ntimeout = 0 /\ ndns = "unspecified"
    /\ nstatus = NoneOf("STATUS") /\ nres = "none" /\ nlog = <<>>

Init == MainInit /\ TickIdle /\ RssiIdle /\ ConsIdle /\ NetIdle

\* ------------------------------------------------------- main and its select!
\* a supervisor that waits for all three branches, as join! would
select_all(pcs) == \A w \in Workers : pcs[w] = "returned"

\* select! completes as soon as one of its branches has returned
select(pcs) == \E w \in Workers : pcs[w] = "returned"

\* worker w returns value; main returns what select! yields
Return(w, value) ==
    /\ pc' = [pc EXCEPT ![w] = "returned"]
    /\ exited' = select(pc')
    /\ result' = IF exited' THEN [worker |-> w, value |-> value] ELSE result
    /\ running' = "none"

\* a runtime that runs each worker as a task of its own, whatever the others do
CanPoll_OwnTask == ~exited

\* the main task resumes a suspended branch / goes on in the branch it is in
CanPoll == ~exited /\ running = "none"
In(w, at) == ~exited /\ running = w /\ pc[w] = at

\* an error path that also empties the worker's cache
OnCycleError_Clears(w) ==
    /\ fails' = IF w \in Producers
                THEN [fails EXCEPT ![w] = IF @ < MaxFails THEN @ + 1 ELSE @]
                ELSE fails
    /\ pc' = [pc EXCEPT ![w] = "awaitTick"]
    /\ running' = "none"
    /\ cache' = [cache EXCEPT ![CacheOf(w)] = NoneOf(CacheOf(w))]
    /\ UNCHANGED <<exited, result>>

\* an error path that propagates the error out of the loop: update(ctx).await?
OnCycleError_Returns(w) ==
    /\ fails' = IF w \in Producers
                THEN [fails EXCEPT ![w] = IF @ < MaxFails THEN @ + 1 ELSE @]
                ELSE fails
    /\ Return(w, "update failed")
    /\ UNCHANGED cache

\* if let Err(e) = update(ctx).await { error!(...) }, then back to tick().await
OnCycleError(w) ==
    /\ fails' = IF w \in Producers
                THEN [fails EXCEPT ![w] = IF @ < MaxFails THEN @ + 1 ELSE @]
                ELSE fails
    /\ pc' = [pc EXCEPT ![w] = "awaitTick"]
    /\ running' = "none"
    /\ UNCHANGED <<exited, result, cache>>

\* the deadline of w's interval passes
TimerFire(w) ==
    /\ ~exited
    /\ pc[w] \notin {"start", "returned"}
    /\ ~due[w]
    /\ due' = [due EXCEPT ![w] = TRUE]
    /\ UNCHANGED <<pc, running, exited, result, cache, wr, rdHeld, rd, wstep,
                   pending, attempt, err, tlog, tempRes, lastOk, fails, local>>
    /\ UNCHANGED <<scan, notMain>>

\* ------------------------------------------------------------------ RwLock
\* read() gets a permit unless the writer holds or waits for all of them
CanRead(c) == wr[c] = "free"
\* a write() that does not wait for the readers
CanWrite_NoWait(c) == TRUE

\* write() gets all permits once no reader holds one
CanWrite(c) == rdHeld[c] = {}

\* ------------------------------------------------------ measurements::worker
\* the family codes of the devices one search of the one-wire bus yields
BusScans == SUBSET {FAMILY_CODE, 16}

\* a search that takes the first device of any family
IsDs18b20_AnyDevice(codes) == codes # {}

\* address.family_code() != ds18b20::FAMILY_CODE => continue
IsDs18b20(codes) == FAMILY_CODE \in codes

\* worker: init(..).await? begins; block_in_place, OneWire::new(pin).unwrap()
M_Init ==
    /\ CanPoll /\ pc["measurements"] = "start" /\ scan.st = "idle"
    /\ \E pinOk \in BOOLEAN :
         IF pinOk
         THEN /\ running' = "measurements"
              /\ scan' = NoScan("search")
              /\ UNCHANGED <<exited, result>>
         ELSE /\ exited' = TRUE
              /\ result' = [worker |-> "measurements", value |-> "panic"]
              /\ UNCHANGED <<running, scan>>
    /\ UNCHANGED <<pc, due, cache, wr, rdHeld, rd, wstep, pending, attempt, err,
                   tlog, tempRes, lastOk, fails, local>>
    /\ UNCHANGED notMain

\* init_ds18b20: one pass of for _ in 0..RETRY_COUNT: the search of the bus,
\* and FreeRtos::delay_ms(1000) if no device of the family was among the found
M_Scan ==
    /\ In("measurements", "start") /\ scan.st = "search"
    /\ Len(scan.log) < RETRY_COUNT
    /\ \E codes \in BusScans :
         scan' = [st |-> IF IsDs18b20(codes) THEN "found" ELSE "search",
                  log |-> Append(scan.log, codes),
                  waited |-> IF IsDs18b20(codes) THEN scan.waited
                             ELSE scan.waited + SCAN_DELAY]
    /\ UNCHANGED <<pc, running, exited, result, due, cache, wr, rdHeld, rd, wstep,
                   pending, attempt, err, tlog, tempRes, lastOk, fails, local>>
    /\ UNCHANGED notMain

\* Ds18b20::new, set_config(..).unwrap(), init_ads1115 (which unwraps too);
\* init returns the context and the worker makes its interval
M_Configure ==
    /\ In("measurements", "start") /\ scan.st = "found"
    /\ \E configured \in BOOLEAN :
         IF configured
         THEN /\ pc' = [pc EXCEPT !["measurements"] = "awaitTick"]
              /\ due' = [due EXCEPT !["measurements"] = TRUE]
              /\ running' = "none"
              /\ scan' = NoScan("done")
              /\ UNCHANGED <<exited, result>>
         ELSE /\ exited' = TRUE
              /\ result' = [worker |-> "measurements", value |-> "panic"]
              /\ UNCHANGED <<pc, due, running, scan>>
    /\ UNCHANGED <<cache, wr, rdHeld, rd, wstep, pending, attempt, err, tlog,
                   tempRes, lastOk, fails, local>>
    /\ UNCHANGED notMain

\* the loop of init_ds18b20 is over: Err(anyhow!("DS18B20 not found")), which
\* init and the worker pass on with ?
M_NotFound ==
    /\ In("measurements", "start") /\ scan.st = "search"
    /\ Len(scan.log) >= RETRY_COUNT
    /\ Return("measurements", "DS18B20 not found")
    /\ UNCHANGED <<due, cache, wr, rdHeld, rd, wstep, pending, attempt, err, tlog,
                   tempRes, lastOk, fails, local, scan>>
    /\ UNCHANGED notMain

M_Tick ==
    /\ CanPoll /\ pc["measurements"] = "awaitTick" /\ due["measurements"]
    /\ due' = [due EXCEPT !["measurements"] = FALSE]
    /\ running' = "measurements"
    /\ pc' = [pc EXCEPT !["measurements"] = "temp"]
    /\ \E timestamp \in Timestamps :
         pending' = [pending EXCEPT !["measurements"] =
                       [tag |-> "Some", timestamp |-> timestamp,
                        temperature |-> 0, tds |-> 0]]
    /\ attempt' = 0 /\ err' = 0 /\ tlog' = <<>>
    /\ UNCHANGED <<exited, result, cache, wr, rdHeld, rd, wstep, tempRes, lastOk, fails, local>>
    /\ UNCHANGED <<scan, notMain>>

TempReads == {[ok |-> TRUE, raw |-> r] : r \in TempRaws} \cup {[ok |-> FALSE, raw |-> 0]}

\* an Err arm that drops the error
SomeErr_Dropped(e) == 0

\* Err(e) => err = Some(e): errors are numbered by the attempt, 0 is None
SomeErr(e) == e

\* one pass of the for loop of read_temperature
M_TempAttempt ==
    /\ In("measurements", "temp") /\ attempt < RETRY_COUNT
    /\ \E start \in BOOLEAN, read \in TempReads :
         IF ~start
         THEN /\ tempRes' = [ok |-> FALSE, val |-> attempt + 1]
              /\ tlog' = Append(tlog, [what |-> "start_err", val |-> 0])
              /\ pc' = [pc EXCEPT !["measurements"] = "tempRet"]
              /\ UNCHANGED <<attempt, err>>
         ELSE IF read.ok
         THEN /\ tempRes' = [ok |-> TRUE, val |-> RoundTemperature(read.raw)]
              /\ tlog' = Append(tlog, [what |-> "ok", val |-> RoundTemperature(read.raw)])
              /\ pc' = [pc EXCEPT !["measurements"] = "tempRet"]
              /\ UNCHANGED <<attempt, err>>
         ELSE /\ err' = SomeErr(attempt + 1)
              /\ attempt' = attempt + 1
              /\ tlog' = Append(tlog, [what |-> "read_err", val |-> 0])
              /\ UNCHANGED <<pc, tempRes>>
    /\ UNCHANGED <<running, exited, result, due, cache, wr, rdHeld, rd, wstep,
                   pending, lastOk, fails, local>>
    /\ UNCHANGED <<scan, notMain>>

\* the loop is over: Err(anyhow!("{:?}", err.unwrap()))
M_TempExhausted ==
    /\ In("measurements", "temp") /\ attempt >= RETRY_COUNT
    /\ IF err = 0
       THEN /\ exited' = TRUE
            /\ result' = [worker |-> "measurements", value |-> "panic"]
            /\ UNCHANGED <<pc, tempRes>>
       ELSE /\ tempRes' = [ok |-> FALSE, val |-> err]
            /\ pc' = [pc EXCEPT !["measurements"] = "tempRet"]
            /\ UNCHANGED <<exited, result>>
    /\ UNCHANGED <<running, due, cache, wr, rdHeld, rd, wstep, pending, attempt,
                   err, tlog, lastOk, fails, local>>
    /\ UNCHANGED <<scan, notMain>>

\* let temperature = read_temperature(..)?;
M_AfterTemp ==
    /\ In("measurements", "tempRet")
    /\ IF tempRes.ok
       THEN /\ pending' = [pending EXCEPT !["measurements"].temperature = tempRes.val]
            /\ pc' = [pc EXCEPT !["measurements"] = "tds"]
            /\ UNCHANGED <<running, exited, result, cache, fails>>
       ELSE /\ OnCycleError("measurements")
            /\ pending' = [pending EXCEPT !["measurements"] = NoneOf("VALUES")]
    /\ attempt' = 0 /\ err' = 0 /\ tlog' = <<>> /\ tempRes' = NoTemp
    /\ UNCHANGED <<due, wr, rdHeld, rd, wstep, lastOk, local>>
    /\ UNCHANGED <<scan, notMain>>

AdcReads == {[ok |-> TRUE, raw |-> r] : r \in AdcRaws} \cup {[ok |-> FALSE, raw |-> 0]}

\* let tds = read_tds(..)?; the closure of block_in_place ends
M_ReadTds ==
    /\ In("measurements", "tds")
    /\ \E adc \in AdcReads :
         IF adc.ok
         THEN /\ pending' = [pending EXCEPT !["measurements"].tds =
                               TdsOf(adc.raw, pending["measurements"].temperature)]
              /\ pc' = [pc EXCEPT !["measurements"] = "write"]
              /\ UNCHANGED <<running, exited, result, cache, fails>>
         ELSE /\ OnCycleError("measurements")
              /\ pending' = [pending EXCEPT !["measurements"] = NoneOf("VALUES")]
    /\ UNCHANGED <<due, wr, rdHeld, rd, wstep, attempt, err, tlog, tempRes, lastOk, local>>
    /\ UNCHANGED <<scan, notMain>>

\* ------------------------------------------- *CACHE.write().await = Some(v)
\* the first poll of write(): the guard, or the writer queues and the branch
\* is suspended
P_WriteAcquire(w) ==
    /\ In(w, "write")
    /\ IF CanWrite(CacheOf(w))
       THEN /\ wr' = [wr EXCEPT ![CacheOf(w)] = "held"]
            /\ wstep' = [wstep EXCEPT ![w] = 1]
            /\ pc' = [pc EXCEPT ![w] = "store"]
            /\ UNCHANGED running
       ELSE /\ wr' = [wr EXCEPT ![CacheOf(w)] = "queued"]
            /\ pc' = [pc EXCEPT ![w] = "awaitWrite"]
            /\ running' = "none"
            /\ UNCHANGED wstep
    /\ UNCHANGED <<exited, result, due, cache, rdHeld, rd, pending, attempt,
                   err, tlog, tempRes, lastOk, fails, local>>
    /\ UNCHANGED <<scan, notMain>>

\* the last reader has gone: the queued writer is woken and gets the guard
P_WriteResume(w) ==
    /\ CanPoll /\ pc[w] = "awaitWrite"
    /\ CanWrite(CacheOf(w))
    /\ wr' = [wr EXCEPT ![CacheOf(w)] = "held"]
    /\ wstep' = [wstep EXCEPT ![w] = 1]
    /\ pc' = [pc EXCEPT ![w] = "store"]
    /\ running' = w
    /\ UNCHANGED <<exited, result, due, cache, rdHeld, rd, pending, attempt,
                   err, tlog, tempRes, lastOk, fails, local>>
    /\ UNCHANGED <<scan, notMain>>

\* the store of one word of Some(v); after the last one the guard is dropped,
\* update returns Ok(()) and the loop is back at tick().await
P_Store(w) ==
    /\ In(w, "store")
    /\ LET c == CacheOf(w)
           f == Fields(c)[wstep[w]]
       IN /\ cache' = [cache EXCEPT ![c][f] = pending[w][f]]
          /\ IF wstep[w] = Len(Fields(c))
             THEN /\ wr' = [wr EXCEPT ![c] = "free"]
                  /\ lastOk' = [lastOk EXCEPT ![c] = pending[w]]
                  /\ fails' = [fails EXCEPT ![w] = 0]
                  /\ pending' = [pending EXCEPT ![w] = NoneOf(c)]
                  /\ wstep' = [wstep EXCEPT ![w] = 0]
                  /\ pc' = [pc EXCEPT ![w] = "awaitTick"]
                  /\ running' = "none"
             ELSE /\ wstep' = [wstep EXCEPT ![w] = @ + 1]
                  /\ UNCHANGED <<wr, lastOk, fails, pending, pc, running>>
    /\ UNCHANGED <<exited, result, due, rdHeld, rd, attempt, err, tlog, tempRes,
                   local>>
    /\ UNCHANGED <<scan, notMain>>

\* ------------------------------------------------------------- cache reads
\* get(): *CACHE.read().await, the copy of the Option word by word; after the
\* last word the guard is dropped and the copy is returned
NoGet == [c |-> "VALUES", st |-> "idle", k |-> 0, buf |-> NoneOf("VALUES"),
          seen |-> NoneOf("VALUES")]

StartGet(r, c) ==
    rd' = [rd EXCEPT ![r] = [c |-> c, st |-> "acquire", k |-> 0,
                             buf |-> NoneOf(c), seen |-> NoneOf(c)]]

\* seen remembers the value of the last completed write at this moment
TakeReadGuard(r) ==
    /\ rdHeld' = [rdHeld EXCEPT ![rd[r].c] = @ \cup {r}]
    /\ rd' = [rd EXCEPT ![r].st = "copy", ![r].k = 1, ![r].seen = lastOk[rd[r].c]]

LastWord(r) == rd[r].k = Len(Fields(rd[r].c))

CopyWord(r) ==
    LET c == rd[r].c
        f == Fields(c)[rd[r].k]
    IN /\ rd' = [rd EXCEPT ![r].buf[f] = cache[c][f],
                           ![r].k = IF LastWord(r) THEN 0 ELSE @ + 1,
                           ![r].st = IF LastWord(r) THEN "done" ELSE @]
       /\ rdHeld' = [rdHeld EXCEPT ![c] = IF LastWord(r) THEN @ \ {r} ELSE @]

\* what get() returned to reader r
Got(r) == Opt(rd[r].c, rd[r].buf)

\* ----------------------------------------- the GET handler of the HTTP server
\* a request arrives: executor::block_on(measurements::get())
H_Request(h) ==
    /\ ~exited
    /\ pc["network"] \notin {"start", "returned"}
    /\ rd[h].st = "idle"
    /\ StartGet(h, "VALUES")
    /\ UNCHANGED <<pc, running, exited, result, due, cache, wr, rdHeld, wstep,
                   pending, attempt, err, tlog, tempRes, lastOk, fails, local>>
    /\ UNCHANGED <<scan, notMain>>

H_Acquire(h) ==
    /\ ~exited
    /\ rd[h].st = "acquire"
    /\ CanRead(rd[h].c)
    /\ TakeReadGuard(h)
    /\ UNCHANGED <<pc, running, exited, result, due, cache, wr, wstep,
                   pending, attempt, err, tlog, tempRes, lastOk, fails, local>>
    /\ UNCHANGED <<scan, notMain>>

H_Copy(h) ==
    /\ ~exited
    /\ rd[h].st = "copy"
    /\ CopyWord(h)
    /\ UNCHANGED <<pc, running, exited, result, due, cache, wr, wstep,
                   pending, attempt, err, tlog, tempRes, lastOk, fails, local>>
    /\ UNCHANGED <<scan, notMain>>

\* the response is written from the copy
H_Respond(h) ==
    /\ ~exited
    /\ rd[h].st = "done"
    /\ rd' = [rd EXCEPT ![h] = NoGet]
    /\ UNCHANGED <<pc, running, exited, result, due, cache, wr, rdHeld, wstep,
                   pending, attempt, err, tlog, tempRes, lastOk, fails, local>>
    /\ UNCHANGED <<scan, notMain>>

\* ----------------------------------------------------------- display::worker
D_Init ==
    /\ CanPoll /\ pc["display"] = "start"
    /\ \E ok \in BOOLEAN :
         IF ok
         THEN /\ pc' = [pc EXCEPT !["display"] = "awaitTick"]
              /\ due' = [due EXCEPT !["display"] = TRUE]
              /\ UNCHANGED <<running, exited, result>>
         ELSE /\ Return("display", "init failed")
              /\ UNCHANGED due
    /\ UNCHANGED <<cache, wr, rdHeld, rd, wstep, pending, attempt, err, tlog,
                   tempRes, lastOk, fails, local>>
    /\ UNCHANGED <<scan, notMain>>

D_Tick ==
    /\ CanPoll /\ pc["display"] = "awaitTick" /\ due["display"]
    /\ due' = [due EXCEPT !["display"] = FALSE]
    /\ running' = "display"
    /\ pc' = [pc EXCEPT !["display"] = "get"]
    /\ StartGet(DisplayReader, "VALUES")
    /\ UNCHANGED <<exited, result, cache, wr, rdHeld, wstep, pending, attempt,
                   err, tlog, tempRes, lastOk, fails, local>>
    /\ UNCHANGED <<scan, notMain>>

\* the first poll of read(): the guard, or the branch is suspended behind the
\* queued writer
D_Acquire ==
    /\ In("display", "get") /\ rd[DisplayReader].st = "acquire"
    /\ IF CanRead(rd[DisplayReader].c)
       THEN TakeReadGuard(DisplayReader) /\ UNCHANGED running
       ELSE running' = "none" /\ UNCHANGED <<rd, rdHeld>>
    /\ UNCHANGED <<pc, exited, result, due, cache, wr, wstep, pending, attempt,
                   err, tlog, tempRes, lastOk, fails, local>>
    /\ UNCHANGED <<scan, notMain>>

D_Resume ==
    /\ CanPoll /\ pc["display"] = "get" /\ rd[DisplayReader].st = "acquire"
    /\ CanRead(rd[DisplayReader].c)
    /\ TakeReadGuard(DisplayReader)
    /\ running' = "display"
    /\ UNCHANGED <<pc, exited, result, due, cache, wr, wstep, pending, attempt,
                   err, tlog, tempRes, lastOk, fails, local>>
    /\ UNCHANGED <<scan, notMain>>

D_Copy ==
    /\ In("display", "get") /\ rd[DisplayReader].st = "copy"
    /\ CopyWord(DisplayReader)
    /\ UNCHANGED <<pc, running, exited, result, due, cache, wr, wstep, pending,
                   attempt, err, tlog, tempRes, lastOk, fails, local>>
    /\ UNCHANGED <<scan, notMain>>

\* m = measurements::get().await, then v = network::get().await; then
\* block_in_place of draw begins
D_Take ==
    /\ In("display", "get") /\ rd[DisplayReader].st = "done"
    /\ local' = [local EXCEPT ![rd[DisplayReader].c] = Got(DisplayReader)]
    /\ IF rd[DisplayReader].c = "VALUES"
       THEN StartGet(DisplayReader, "STATUS") /\ UNCHANGED pc
       ELSE /\ rd' = [rd EXCEPT ![DisplayReader] = NoGet]
            /\ pc' = [pc EXCEPT !["display"] = "draw"]
    /\ UNCHANGED <<running, exited, result, due, cache, wr, rdHeld, wstep,
                   pending, attempt, err, tlog, tempRes, lastOk, fails>>
    /\ UNCHANGED <<scan, notMain>>

\* block_in_place of draw: the frame is drawn and flushed over the I2C bus
D_Draw ==
    /\ In("display", "draw")
    /\ \E ok \in BOOLEAN :
         IF ok
         THEN /\ pc' = [pc EXCEPT !["display"] = "awaitTick"]
              /\ running' = "none"
              /\ UNCHANGED <<exited, result, cache, fails>>
         ELSE OnCycleError("display")
    /\ local' = [c \in Caches |-> NoneOf(c)]
    /\ UNCHANGED <<due, wr, rdHeld, rd, wstep, pending, attempt, err, tlog,
                   tempRes, lastOk>>
    /\ UNCHANGED <<scan, notMain>>

\* ----------------------------------------------------------- network::worker
N_Init ==
    /\ CanPoll /\ pc["network"] = "start"
    /\ \E ok \in BOOLEAN :
         IF ok
         THEN /\ pc' = [pc EXCEPT !["network"] = "awaitTick"]
              /\ due' = [due EXCEPT !["network"] = TRUE]
              /\ UNCHANGED <<running, exited, result>>
         ELSE /\ Return("network", "init failed")
              /\ UNCHANGED due
    /\ UNCHANGED <<cache, wr, rdHeld, rd, wstep, pending, attempt, err, tlog,
                   tempRes, lastOk, fails, local>>
    /\ UNCHANGED <<scan, notMain>>

N_Tick ==
    /\ CanPoll /\ pc["network"] = "awaitTick" /\ due["network"]
    /\ due' = [due EXCEPT !["network"] = FALSE]
    /\ running' = "network"
    /\ pc' = [pc EXCEPT !["network"] = "link"]
    /\ UNCHANGED <<exited, result, cache, wr, rdHeld, rd, wstep, pending,
                   attempt, err, tlog, tempRes, lastOk,
                   fails, local>>
    /\ UNCHANGED <<scan, notMain>>

\* if !ctx.wifi.is_connected().unwrap_or(false) { connect_and_wait(..)?; }
N_Link ==
    /\ In("network", "link")
    /\ \E connected \in {"true", "false", "err"},
          connectOk \in BOOLEAN, readyAt \in DnsReadyAts :
         IF connected = "true" \/ connect_and_wait(connectOk, readyAt).ok
         THEN /\ pc' = [pc EXCEPT !["network"] = "rssi"]
              /\ UNCHANGED <<running, exited, result, cache, fails>>
         ELSE OnCycleError("network")
    /\ UNCHANGED <<due, wr, rdHeld, rd, wstep, pending, attempt, err, tlog,
                   tempRes, lastOk, local>>
    /\ UNCHANGED <<scan, notMain>>

RssiReads == {[ok |-> TRUE, rssi |-> r] : r \in RssiInputs} \cup {[ok |-> FALSE, rssi |-> 0]}

\* let rssi = ctx.wifi.get_rssi()?; the closure of block_in_place ends
N_Rssi ==
    /\ In("network", "rssi")
    /\ \E read \in RssiReads :
         IF read.ok
         THEN /\ pending' = [pending EXCEPT !["network"] =
                               [tag |-> "Some", signal_quality |-> from_rssi(read.rssi)]]
              /\ pc' = [pc EXCEPT !["network"] = "write"]
              /\ UNCHANGED <<running, exited, result, cache, fails>>
         ELSE OnCycleError("network") /\ UNCHANGED pending
    /\ UNCHANGED <<due, wr, rdHeld, rd, wstep, attempt, err, tlog, tempRes, lastOk, local>>
    /\ UNCHANGED <<scan, notMain>>

Next ==
    \/ D_Init
    \/ D_Tick
    \/ D_Acquire
    \/ D_Resume
    \/ D_Copy
    \/ D_Take
    \/ D_Draw
    \/ N_Init
    \/ N_Tick
    \/ N_Link
    \/ N_Rssi
    \/ M_Init
    \/ M_Scan
    \/ M_Configure
    \/ M_NotFound
    \/ M_Tick
    \/ M_TempAttempt
    \/ M_TempExhausted
    \/ M_AfterTemp
    \/ M_ReadTds
    \/ \E w \in Producers : P_WriteAcquire(w)
    \/ \E w \in Producers : P_WriteResume(w)
    \/ \E w \in Producers : P_Store(w)
    \/ \E w \in Workers : TimerFire(w)
    \/ \E h \in Handlers : H_Request(h)
    \/ \E h \in Handlers : H_Acquire(h)
    \/ \E h \in Handlers : H_Copy(h)
    \/ \E h \in Handlers : H_Respond(h)

Spec == Init /\ [][Next]_vars

\* ------------------------------------------------- the interval of one worker
\* let mut interval = interval(period); set_missed_tick_behavior(Skip); the
\* first tick completes at once
TickInit ==
    /\ MainInit /\ RssiIdle /\ ConsIdle /\ NetIdle
    /\ tworker \in Workers
    /\ tnow = 0 /\ deadline = 0 /\ tpc = "tick"
    /\ lastAct = -1 /\ prevAct = -1

\* interval.tick().await completes: the cycle of the loop begins
T_Tick ==
    /\ tpc = "tick" /\ tnow >= deadline
    /\ deadline' = NextDeadline(deadline, tnow, PeriodOf(tworker))
    /\ tpc' = "work"
    /\ prevAct' = lastAct
    /\ lastAct' = tnow
    /\ UNCHANGED <<tworker, tnow>>
    /\ UNCHANGED notTick

\* the cycle (update / draw) is over and the loop is back at tick().await
T_Done ==
    /\ tpc = "work"
    /\ tpc' = "tick"
    /\ UNCHANGED <<tworker, tnow, deadline, lastAct, prevAct>>
    /\ UNCHANGED notTick

\* a second passes; a loop that waits for its tick is woken at the deadline
T_Advance ==
    /\ tnow < MaxTime
    /\ tpc = "tick" => tnow < deadline
    /\ tnow' = tnow + 1
    /\ UNCHANGED <<tworker, deadline, tpc, lastAct, prevAct>>
    /\ UNCHANGED notTick

TickNext ==
    \/ T_Tick
    \/ T_Done
    \/ T_Advance

TickSpec == TickInit /\ [][TickNext]_vars

\* --------------------------------------------- one call of from_rssi
RssiInit ==
    /\ MainInit /\ TickIdle /\ ConsIdle /\ NetIdle
    /\ rssiIn \in (-MaxRssiMagnitude)..0
    /\ quality = "none" /\ level = -1

\* what a call of from_rssi can do: -rssi overflows for i32::MIN, which panics
\* in a build with overflow checks and wraps in one without
FromRssiOutcomes(rssi) ==
    {from_rssi(rssi)} \cup (IF rssi = I32_MIN THEN {"panic"} ELSE {})

\* let signal_quality = SignalQuality::from_rssi(rssi); signal_quality.into()
R_Classify ==
    /\ quality = "none"
    /\ quality' \in FromRssiOutcomes(rssiIn)
    /\ level' = IF quality' = "panic" THEN -1 ELSE QualityToI32(quality')
    /\ UNCHANGED rssiIn
    /\ UNCHANGED notRssi

RssiNext == R_Classify

RssiSpec == RssiInit /\ [][RssiNext]_vars

\* one call of from_rssi on any i32: the ends of the range and the values
\* around zero
Rssi32Inputs ==
    {I32_MIN, I32_MIN + 1, I32_MAX} \cup (-MaxRssiMagnitude)..MaxRssiMagnitude

Rssi32Init ==
    /\ MainInit /\ TickIdle /\ ConsIdle /\ NetIdle
    /\ rssiIn \in Rssi32Inputs
    /\ quality = "none" /\ level = -1

Rssi32Spec == Rssi32Init /\ [][RssiNext]_vars

\* ------------------------------------- one draw() and one GET request
ValuesInputs ==
    {NoneOf("VALUES")} \cup
    {[tag |-> "Some", timestamp |-> ts, temperature |-> t, tds |-> d] :
        ts \in {0, 1}, t \in {0, 203, -5}, d \in {0, 164}}

StatusInputs ==
    {NoneOf("STATUS")} \cup
    {[tag |-> "Some", signal_quality |-> q] :
        q \in {"Unreliable", "Poor", "Fair", "Good", "Excellent"}}

ConsInit ==
    /\ MainInit /\ TickIdle /\ RssiIdle /\ NetIdle
    /\ drawM \in ValuesInputs /\ drawV \in StatusInputs
    /\ frame = BlankFrame /\ response = NoResponse

\* draw, from the two get()s on: the frame is composed and flushed to the panel
C_Draw ==
    /\ frame.state = "blank"
    /\ \E flushOk \in BOOLEAN :
         frame' = [Render(drawM, drawV) EXCEPT !.state = IF flushOk THEN "shown" ELSE @]
    /\ UNCHANGED <<drawM, drawV, response>>
    /\ UNCHANGED notCons

\* the GET handler, from measurements::get() on
C_Handle ==
    /\ response = NoResponse
    /\ response' = Respond(drawM)
    /\ UNCHANGED <<drawM, drawV, frame>>
    /\ UNCHANGED notCons

ConsNext ==
    \/ C_Draw
    \/ C_Handle

ConsumerSpec == ConsInit /\ [][ConsNext]_vars

\* ------------------------- network::worker alone, connect_and_wait in steps
NetInit ==
    /\ MainInit /\ TickIdle /\ RssiIdle /\ ConsIdle
    /\ npc = "tick" /\ ntimeout = 0 /\ ndns = "unspecified"
    /\ nstatus = NoneOf("STATUS") /\ nres = "none" /\ nlog = <<>>

NetOp(op, res, val) == [op |-> op, res |-> res, val |-> val]

\* an error branch that treats a failed link-state query as connected
NeedsConnect_ErrIsConnected(connected) == connected = "false"

\* !ctx.wifi.is_connected().unwrap_or(false)
NeedsConnect(connected) == connected # "true"

\* if let Err(e) = update(ctx).await { error!(..) }: the cycle is over
NC_CycleError(res) ==
    /\ nres' = res
    /\ npc' = "tick"
    /\ UNCHANGED nstatus

\* interval.tick().await completes and update begins
NC_Tick ==
    /\ npc = "tick"
    /\ npc' = "link"
    /\ nlog' = <<>> /\ ntimeout' = 0 /\ ndns' = "unspecified"
    /\ UNCHANGED <<nstatus, nres>>
    /\ UNCHANGED notNet

NC_IsConnected ==
    /\ npc = "link"
    /\ \E connected \in {"true", "false", "err"} :
         /\ nlog' = Append(nlog, NetOp("is_connected", connected, 0))
         /\ npc' = IF NeedsConnect(connected) THEN "connect" ELSE "rssi"
    /\ UNCHANGED <<ntimeout, ndns, nstatus, nres>>
    /\ UNCHANGED notNet

\* connect_and_wait: wifi.connect()?; let mut timeout = 0;
NC_Connect ==
    /\ npc = "connect"
    /\ \E connectOk \in BOOLEAN :
         IF connectOk
         THEN /\ npc' = "look" /\ ntimeout' = 0
              /\ UNCHANGED <<nlog, nres, nstatus>>
         ELSE /\ nlog' = Append(nlog, NetOp("connect_and_wait", "refused", 0))
              /\ NC_CycleError("refused")
              /\ UNCHANGED ntimeout
    /\ UNCHANGED ndns
    /\ UNCHANGED notNet

\* while wifi.sta_netif().get_dns().is_unspecified(): one look; Ok(()) if the
\* address is specified
NC_Look ==
    /\ npc = "look"
    /\ \E dns \in {"unspecified", "specified"} :
         /\ ndns' = dns
         /\ IF dns = "specified"
            THEN /\ nlog' = Append(nlog, NetOp("connect_and_wait", "ok", ntimeout))
                 /\ npc' = "rssi"
            ELSE /\ npc' = "delay"
                 /\ UNCHANGED nlog
    /\ UNCHANGED <<ntimeout, nstatus, nres>>
    /\ UNCHANGED notNet

\* FreeRtos::delay_ms(DELAY); timeout += 1; if timeout >= MAX_TIMEOUT { Err }
NC_Delay ==
    /\ npc = "delay"
    /\ ntimeout' = ntimeout + 1
    /\ IF ntimeout' >= MAX_TIMEOUT
       THEN /\ nlog' = Append(nlog, NetOp("connect_and_wait", "timeout", ntimeout'))
            /\ NC_CycleError("timeout")
       ELSE /\ npc' = "look"
            /\ UNCHANGED <<nlog, nres, nstatus>>
    /\ UNCHANGED ndns
    /\ UNCHANGED notNet

\* let rssi = ctx.wifi.get_rssi()?;
NC_Rssi ==
    /\ npc = "rssi"
    /\ \E read \in RssiReads :
         IF read.ok
         THEN /\ nlog' = Append(nlog, NetOp("get_rssi", "ok", read.rssi))
              /\ npc' = "publish"
              /\ UNCHANGED <<nres, nstatus>>
         ELSE /\ nlog' = Append(nlog, NetOp("get_rssi", "err", 0))
              /\ NC_CycleError("rssi")
    /\ UNCHANGED <<ntimeout, ndns>>
    /\ UNCHANGED notNet

\* *STATUS.write().await = Some(Status { signal_quality: from_rssi(rssi) })
NC_Publish ==
    /\ npc = "publish"
    /\ nstatus' = [tag |-> "Some", signal_quality |-> from_rssi(nlog[Len(nlog)].val)]
    /\ nlog' = Append(nlog, NetOp("publish", "ok", 0))
    /\ nres' = "ok"
    /\ npc' = "tick"
    /\ UNCHANGED <<ntimeout, ndns>>
    /\ UNCHANGED notNet

NetNext ==
    \/ NC_Tick
    \/ NC_IsConnected
    \/ NC_Connect
    \/ NC_Look
    \/ NC_Delay
    \/ NC_Rssi
    \/ NC_Publish

NetSpec == NetInit /\ [][NetNext]_vars

\* ------------------------------------------------------------------ claims
InLoop(w) == pc[w] \notin {"start", "returned"}

\* the blocking hardware work of a cycle: the closures of block_in_place
Blocking(w) ==
    /\ ~exited /\ running = w
    /\ pc[w] \in {"temp", "tempRet", "tds", "link", "rssi", "draw"}

\* the poll that serves the tick of worker w
ServeTick(w) ==
    \/ w = "display" /\ D_Tick
    \/ w = "network" /\ N_Tick
    \/ w = "measurements" /\ M_Tick

\* C1: every get() that has returned, in the display or in the HTTP handler,
\* returned the Option that the last completed write had stored when the read
\* guard was taken (None before the first one), whatever the writer did in
\* between; the tds of a returned Values is the one computed from the
\* temperature next to it, so no returned value mixes two cycles.
C1_CacheAtomicity ==
    \A r \in Readers :
        rd[r].st = "done" =>
            /\ Got(r) = rd[r].seen
            /\ (rd[r].c = "VALUES" /\ Got(r).tag = "Some") =>
                   \E raw \in AdcRaws : Got(r).tds = TdsOf(raw, Got(r).temperature)

\* C1 witness: the handler got a value and the sampling loop has published
\* another one since
W_C1_ReadOvertakenByWrite ==
    \E h \in Handlers :
        /\ rd[h].st = "done" /\ Got(h).tag = "Some"
        /\ lastOk["VALUES"].tag = "Some" /\ lastOk["VALUES"] # Got(h)

\* C2: while a producer has failed cycles behind it and is not in the middle of
\* a write, its cache holds exactly what the last successful cycle published
C2_StaleOnFailure ==
    \A w \in Producers :
        (fails[w] > 0 /\ wr[CacheOf(w)] # "held") =>
            cache[CacheOf(w)] = lastOk[CacheOf(w)]

\* C2 witness: two failed cycles in a row after a success, for both caches
W_C2_TwoFailuresAfterSuccess ==
    \A w \in Producers :
        /\ fails[w] >= 2
        /\ lastOk[CacheOf(w)].tag = "Some"
        /\ cache[CacheOf(w)] = lastOk[CacheOf(w)]

\* C3: a cache is None as long as no cycle of its producer has succeeded, Some
\* once one has; it becomes Some only in the store of its producer, and once
\* Some it never becomes None again
C3_NoneThenSome ==
    /\ [](\A c \in Caches :
            /\ (lastOk[c].tag = "None" /\ wr[c] # "held") => cache[c].tag = "None"
            /\ lastOk[c].tag = "Some" => cache[c].tag = "Some")
    /\ [][\A w \in Producers :
            /\ cache[CacheOf(w)].tag = "Some" => cache'[CacheOf(w)].tag = "Some"
            /\ (cache[CacheOf(w)].tag = "None" /\ cache'[CacheOf(w)].tag = "Some")
                 => In(w, "store")]_vars

\* C3 witness: both caches are Some and their producers have failed since
W_C3_SomeAfterFailures ==
    \A w \in Producers :
        cache[CacheOf(w)].tag = "Some" /\ fails[w] > 0 /\ pc[w] = "awaitTick"

\* C4: while a loop is in the blocking work of its cycle, another loop whose
\* tick is due can be served
C4_BlockingIsolation ==
    \A w \in Workers, u \in Workers :
        (w # u /\ Blocking(w) /\ pc[u] = "awaitTick" /\ due[u])
            => ENABLED ServeTick(u)

\* C5: a worker that is in its loop stays in it at every step, and a producer
\* that has logged a failed cycle is still in its loop
C5_ErrorsNeverEndLoop ==
    /\ [](\A w \in Producers : fails[w] > 0 => InLoop(w))
    /\ [][\A w \in Workers : InLoop(w) => InLoop(w)']_vars

\* C5 witness: a producer runs a new cycle after a failed one
W_C5_CycleAfterFailure ==
    \E w \in Producers : fails[w] > 0 /\ running = w /\ pc[w] \in {"temp", "link"}

\* C6: a worker returns only from its initialization; when one does, main
\* returns with that worker's result, and from then on nothing runs
C6_FirstToFinish ==
    [][/\ \A w \in Workers :
            (pc[w] # "returned" /\ pc'[w] = "returned") =>
                /\ pc[w] = "start"
                /\ exited'
                /\ result'.worker = w /\ result'.value # "none"
       /\ exited => UNCHANGED mainVars]_vars

\* C6 witness: the measurements worker returned while the two others were
\* waiting for their next tick
W_C6_ExitWithLoopsWaiting ==
    /\ exited /\ result.worker = "measurements"
    /\ pc["display"] = "awaitTick" /\ pc["network"] = "awaitTick"
    /\ due["display"] /\ due["network"]

\* C7: read_temperature makes at most 3 attempts; no attempt follows a success;
\* it returns Ok exactly when its last attempt succeeded, with the value of that
\* attempt; otherwise it returns the error of its last attempt, and the cycle
\* ends without a store to the cache
C7_RetryPolicy ==
    /\ [](pc["measurements"] = "tempRet" =>
            /\ Len(tlog) >= 1 /\ Len(tlog) <= 3
            /\ \A i \in 1..(Len(tlog) - 1) : tlog[i].what # "ok"
            /\ tempRes.ok <=> tlog[Len(tlog)].what = "ok"
            /\ tempRes.ok => tempRes.val = tlog[Len(tlog)].val
            /\ ~tempRes.ok => tempRes.val = Len(tlog))
    /\ [][(pc["measurements"] = "tempRet" /\ ~tempRes.ok /\ pc'["measurements"] # "tempRet")
            => (cache' = cache /\ lastOk' = lastOk /\ pc'["measurements"] = "awaitTick")]_vars

\* C7 witness: two failed reads, then the third attempt succeeds
W_C7_ThirdAttemptSucceeds ==
    /\ pc["measurements"] = "tempRet" /\ tempRes.ok /\ Len(tlog) = 3
    /\ tlog[1].what = "read_err" /\ tlog[2].what = "read_err"

\* C8: the temperature step fails the cycle only after 3 failed attempts
C8_FailsOnlyAfterThreeAttempts ==
    (pc["measurements"] = "tempRet" /\ ~tempRes.ok) => Len(tlog) = 3

C10_SignalClassification ==
    quality # "none" =>
        LET m == -rssiIn
            table == [x \in {-50, -51, -60, -61, -70, -71, -85, -86, -150, -200} |->
                        CASE x = -50 -> "Excellent"
                          [] x \in {-51, -60} -> "Good"
                          [] x \in {-61, -70} -> "Fair"
                          [] x \in {-71, -85} -> "Poor"
                          [] OTHER -> "Unreliable"]
        IN /\ m \in 0..50 => quality = "Excellent" /\ level = 4
           /\ m \in 51..60 => quality = "Good" /\ level = 3
           /\ m \in 61..70 => quality = "Fair" /\ level = 2
           /\ m \in 71..85 => quality = "Poor" /\ level = 1
           /\ m >= 86 => quality = "Unreliable" /\ level = 0
           /\ rssiIn \in DOMAIN table => quality = table[rssiIn]

\* C10 witness: -150 dBm, beyond the clamp, is classified Unreliable
W_C10_BeyondClamp ==
    rssiIn = -150 /\ quality = "Unreliable" /\ level = 0

\* C11: once draw has composed a frame, whatever it shows for a cache that was
\* None differs from what it shows for every Some value of that cache: the two
\* texts of the measurement, and the signal bars of the link status
C11_NoneRenderedDistinctly ==
    frame.state # "blank" =>
        /\ drawM.tag = "None" =>
             \A s \in ValuesInputs : s.tag = "Some" =>
                 /\ Render(s, drawV).temperature # frame.temperature
                 /\ Render(s, drawV).tds # frame.tds
        /\ drawV.tag = "None" =>
             \A s \in StatusInputs : s.tag = "Some" =>
                 Render(drawM, s).bars # frame.bars

\* C12: a GET request served from None is answered 204 with an empty body, one
\* served from Some(v) is answered 200 with a body of v's timestamp,
\* temperature and tds in this order, and no reading, the all-zero one
\* included, is answered like the empty cache
C12_NoDataDistinct ==
    response # NoResponse =>
        /\ drawM.tag = "None" => (response.status = 204 /\ response.body = <<>>)
        /\ drawM.tag = "Some" =>
             /\ response.status = 200
             /\ response.body = <<[key |-> "timestamp", value |-> drawM.timestamp],
                                  [key |-> "temperature", value |-> drawM.temperature],
                                  [key |-> "tds", value |-> drawM.tds]>>
        /\ \A m \in ValuesInputs :
             m.tag = "Some" => Respond(m) # Respond(NoneOf("VALUES"))

\* C12 witness: the all-zero reading was answered with a body
W_C12_ZeroReadingAnswered ==
    /\ drawM = [tag |-> "Some", timestamp |-> 0, temperature |-> 0, tds |-> 0]
    /\ response.status = 200 /\ Len(response.body) = 3

\* C13: connect_and_wait looks at the DNS address at most 1000 times, 10 ms
\* apart, so for at most 10 s: it returns Ok at the first look that finds the
\* address specified and the timeout error after the 1000th delay, as the
\* closed form connect_and_wait(connectOk, readyAt) says, and every pass of its
\* loop returns or counts one up, so it terminates (a connect request that is
\* refused returns at once, without a look); a cycle that ends in the timeout
\* has done nothing but the link query and the wait, STATUS changes in no
\* step but the publication, the loop goes on to its next tick, and the next
\* cycle connects again if the link is still not connected
C13_ConnectAndWait ==
    /\ [](/\ ntimeout <= 1000 /\ DELAY = 10 /\ ntimeout * DELAY <= 10000
          /\ npc = "look" => ntimeout < 1000
          /\ npc = "delay" => (ndns = "unspecified" /\ ntimeout < 1000)
          /\ \A i \in 1..Len(nlog) : nlog[i].op = "connect_and_wait" =>
               /\ i = 2 /\ nlog[1].op = "is_connected"
               /\ nlog[i].res = "ok" =>
                    /\ ndns = "specified" /\ nlog[i].val = ntimeout
                    /\ connect_and_wait(TRUE, ntimeout) = [ok |-> TRUE, delays |-> ntimeout]
               /\ nlog[i].res = "timeout" =>
                    /\ ndns = "unspecified" /\ nlog[i].val = 1000 /\ ntimeout = 1000
                    /\ connect_and_wait(TRUE, ntimeout) = [ok |-> FALSE, delays |-> 1000]
                    /\ Len(nlog) = 2 /\ nres = "timeout" /\ npc = "tick"
               /\ nlog[i].res = "refused" =>
                    /\ ntimeout = 0 /\ connect_and_wait(FALSE, 0) = [ok |-> FALSE, delays |-> 0]
                    /\ Len(nlog) = 2 /\ nres = "refused" /\ npc = "tick")
    /\ [][/\ npc = "delay" => (ntimeout' = ntimeout + 1 /\ npc' \in {"look", "tick"})
          /\ npc = "look" => npc' \in {"rssi", "delay"}
          /\ nstatus' # nstatus => npc = "publish"
          /\ (npc = "tick" /\ nres = "timeout") => npc' = "link"
          /\ (npc = "link" /\ nres = "timeout" /\ nlog'[1].res # "true")
                => npc' = "connect"]_vars

\* C13 witness: a cycle has timed out after a status was published, and the
\* next cycle is waiting for the link again
W_C13_ReconnectAfterTimeout ==
    /\ nres = "timeout" /\ nstatus.tag = "Some"
    /\ npc = "delay" /\ ntimeout = 999

\* the loop that owns a cache
OwnerOf(c) == IF c = "VALUES" THEN "measurements" ELSE "network"

\* C14: the write side of a cache's lock is held or waited for only by the
\* loop that owns the cache, at the write of its update; every step that
\* changes a cache or the write side of its lock is a step of that loop; the
\* steps of the display and of the HTTP handler change neither
C14_SingleWriter ==
    /\ [](\A c \in Caches :
            /\ wr[c] = "held" => (running = OwnerOf(c) /\ pc[OwnerOf(c)] = "store")
            /\ wr[c] = "queued" => pc[OwnerOf(c)] = "awaitWrite")
    /\ [][/\ \A c \in Caches :
               (cache'[c] # cache[c] \/ wr'[c] # wr[c]) =>
                   \/ running = OwnerOf(c) /\ pc[OwnerOf(c)] \in {"write", "store"}
                   \/ running = "none" /\ running' = OwnerOf(c)
                        /\ pc[OwnerOf(c)] = "awaitWrite"
          /\ (running = "display" \/ running' = "display" \/ rd' # rd)
                => (cache' = cache /\ wr' = wr)]_vars

\* C14 witness: the sampling loop holds the write guard of VALUES while the
\* HTTP handler waits to read it, and STATUS has been written too
W_C14_WriterWithReaderWaiting ==
    /\ wr["VALUES"] = "held" /\ rd["http"].st = "acquire"
    /\ lastOk["STATUS"].tag = "Some" /\ lastOk["VALUES"].tag = "Some"

\* whether scan i of this discovery found a DS18B20 (family code 0x28)
ScanFound(i) == i \in 1..Len(scan.log) /\ 40 \in scan.log[i]

\* C15: discovery makes at most 3 scans and waits 1 s after each scan that
\* found no DS18B20; no scan follows one that found the device: that scan ends
\* discovery, and the worker enters its loop from there once the sensor and the
\* ADC are configured (a configuration that fails panics); the worker returns
\* only after 3 scans that found none, as the closed form init_ds18b20 says,
\* with "DS18B20 not found", never having been in its loop, with VALUES still
\* None, and main exits with that result
C15_SensorDiscovery ==
    /\ [](/\ Len(scan.log) <= 3
          /\ \A i \in 1..(Len(scan.log) - 1) : ~ScanFound(i)
          /\ scan.st = "found" <=> ScanFound(Len(scan.log))
          /\ scan.waited = 1000 * Cardinality({i \in 1..Len(scan.log) : ~ScanFound(i)})
          /\ scan.st = "found" =>
               init_ds18b20([i \in 1..3 |-> ScanFound(i)])
                   = [ok |-> TRUE, scans |-> Len(scan.log)]
          /\ pc["measurements"] = "returned" =>
               /\ Len(scan.log) = 3 /\ scan.waited = 3000
               /\ init_ds18b20([i \in 1..3 |-> ScanFound(i)])
                      = [ok |-> FALSE, scans |-> 3]
               /\ exited
               /\ result = [worker |-> "measurements", value |-> "DS18B20 not found"]
               /\ cache["VALUES"] = NoneOf("VALUES") /\ lastOk["VALUES"].tag = "None"
          /\ InLoop("measurements") => scan.st = "done")
    /\ [][/\ (scan.st = "found" /\ scan' # scan) => (InLoop("measurements")' /\ ~exited')
          /\ (scan.st = "found" /\ exited') => result'.value = "panic"
          /\ (InLoop("measurements")' /\ ~InLoop("measurements")) => scan.st = "found"
          /\ (pc'["measurements"] = "returned" /\ pc["measurements"] # "returned")
               => (scan.st = "search" /\ Len(scan.log) = 3)]_vars

\* C15 witness: three scans found no DS18B20 (the last one found a device of
\* another family) and main has exited, although STATUS had been published
W_C15_NotFoundAfterThreeScans ==
    /\ exited /\ result.value = "DS18B20 not found"
    /\ Len(scan.log) = 3 /\ scan.log[3] = {16}
    /\ lastOk["STATUS"].tag = "Some" /\ pc["display"] = "awaitTick"

\* reader r has called get() and its read() has not got the guard: it waits
ReadWaits(r) == rd[r].st = "acquire" /\ ~CanRead(rd[r].c)

\* C16: a reader that waits for the read guard of a cache never does so while
\* a producer is in the blocking hardware work of a cycle
C16_ReadsNeverWaitForIO ==
    \A r \in Readers : ReadWaits(r) => \A w \in Producers : ~Blocking(w)

\* producer w is between the start of its cycle's hardware I/O and the end of
\* the cycle (the value published, or the cycle failed)
MidCycle(w) ==
    pc[w] \in {"temp", "tempRet", "tds", "link", "rssi", "write", "awaitWrite", "store"}

\* C17: from the start of a cycle's hardware I/O to its end the main task stays
\* in that producer's branch: it is not suspended, so no other loop runs
C17_NoMidCycleSuspension ==
    \A w \in Producers : (MidCycle(w) /\ ~exited) => running = w

\* the band of an RSSI, by the thresholds on its magnitude
BandOf(rssi) ==
    CASE -rssi <= 50 -> "Excellent"
      [] -rssi \in 51..60 -> "Good"
      [] -rssi \in 61..70 -> "Fair"
      [] -rssi \in 71..85 -> "Poor"
      [] OTHER -> "Unreliable"

\* C18: a connectivity cycle begins with the link query; connect-and-wait runs
\* exactly when the query did not say connected (false, or the query failed),
\* and before the RSSI is read; the RSSI is read only after a query that said
\* connected or a connect-and-wait that succeeded; a connect-and-wait or an
\* RSSI read that failed is the last thing the cycle did; a publication is the
\* last thing of its cycle, follows a successful RSSI read directly, and the
\* STATUS it leaves is Some of the band of exactly that RSSI; STATUS changes
\* in no other step
C18_CycleOrdering ==
    /\ [](/\ \A i \in 1..Len(nlog) :
               /\ nlog[i].op = "is_connected" <=> i = 1
               /\ nlog[i].op = "connect_and_wait" =>
                    (i = 2 /\ nlog[1].res \in {"false", "err"})
               /\ nlog[i].op = "get_rssi" =>
                    \/ i = 2 /\ nlog[1].res = "true"
                    \/ i = 3 /\ nlog[2].op = "connect_and_wait" /\ nlog[2].res = "ok"
               /\ (nlog[i].op \in {"connect_and_wait", "get_rssi"} /\ nlog[i].res # "ok")
                    => (i = Len(nlog) /\ npc = "tick" /\ nres # "ok")
               /\ nlog[i].op = "publish" =>
                    /\ i = Len(nlog) /\ i > 1
                    /\ nlog[i - 1].op = "get_rssi" /\ nlog[i - 1].res = "ok"
                    /\ nstatus = [tag |-> "Some",
                                  signal_quality |-> BandOf(nlog[i - 1].val)]
          /\ npc \in {"connect", "look", "delay"} =>
               (Len(nlog) = 1 /\ nlog[1].res \in {"false", "err"})
          /\ npc = "rssi" =>
               \/ Len(nlog) = 1 /\ nlog[1].res = "true"
               \/ Len(nlog) = 2 /\ nlog[2].res = "ok")
    /\ [][nstatus' # nstatus =>
            (nlog' # <<>> /\ nlog'[Len(nlog')].op = "publish" /\ nlog' # nlog)]_vars

\* C18 witness: the link query failed, connect-and-wait succeeded after one
\* delay, -86 dBm was read and Unreliable published
W_C18_PublishedAfterReconnect ==
    /\ Len(nlog) = 4 /\ nlog[1].res = "err"
    /\ nlog[2].res = "ok" /\ nlog[2].val = 1
    /\ nlog[3].val = -86 /\ nlog[4].op = "publish"
    /\ nstatus.signal_quality = "Unreliable" /\ nres = "ok"

\* worker w is in the synchronous code that makes transactions on the I2C bus
\* through its RefCellDevice: the closure of draw that ends with the flush, the
\* ADC read of read_tds, the configuration of the ADC at initialization
OnBus(w) ==
    \/ w = "display" /\ pc[w] = "draw"
    \/ w = "measurements" /\ pc[w] = "tds"
    \/ w = "measurements" /\ pc[w] = "start" /\ scan.st = "found"

\* C19: the display and the sampling loop are never both in code that borrows
\* the bus, and a loop that is in such code is the branch the main task is
\* executing, so no borrow of the RefCell meets another one
C19_BusNeverShared ==
    /\ ~(OnBus("display") /\ OnBus("measurements"))
    /\ \A w \in Workers : OnBus(w) => running = w

\* C19 witness: the display is in the closure that draws and flushes a reading
\* while the tick of the sampling loop, whose cycle reads the ADC, is due
W_C19_DrawWhileSamplingDue ==
    /\ OnBus("display") /\ local["VALUES"].tag = "Some"
    /\ pc["measurements"] = "awaitTick" /\ due["measurements"]

\* C20: from_rssi returns a quality for every i32, the level of a lower RSSI is
\* never above the level of a higher one, every RSSI >= 0 is Excellent and
\* every RSSI <= -86, the minimum i32 included, is Unreliable
C20_TotalAndMonotone ==
    quality # "none" =>
        /\ quality \in {"Unreliable", "Poor", "Fair", "Good", "Excellent"}
        /\ level \in 0..4
        /\ \A b \in Rssi32Inputs :
             rssiIn <= b => level <= QualityToI32(from_rssi(b))
        /\ rssiIn >= 0 => quality = "Excellent"
        /\ rssiIn <= -86 => quality = "Unreliable"

\* C21: err.unwrap() is reached only after 3 attempts that each ended in a
\* failed read_data, with the error of the third one recorded, so it does not
\* panic: no steady-state cycle ends in a panic; read_temperature leaves its
\* loop otherwise only by a return, of the value of a successful read or of
\* the error of a failed start, and each step of it stays in the function or
\* returns
C21_UnwrapNeverPanics ==
    /\ [](/\ (pc["measurements"] = "temp" /\ attempt >= 3) =>
               /\ attempt = 3 /\ err = 3 /\ Len(tlog) = 3
               /\ \A i \in 1..3 : tlog[i].what = "read_err"
          /\ (pc["measurements"] = "temp" /\ attempt < 3) =>
               /\ Len(tlog) = attempt /\ err = attempt
               /\ \A i \in 1..Len(tlog) : tlog[i].what = "read_err"
          /\ pc["measurements"] = "tempRet" =>
               /\ tlog # <<>>
               /\ tempRes.ok => tlog[Len(tlog)].what = "ok"
               /\ ~tempRes.ok =>
                    \/ tlog[Len(tlog)].what = "start_err"
                    \/ Len(tlog) = 3 /\ tlog[3].what = "read_err" /\ tempRes.val = 3
          /\ ~(InLoop("measurements") /\ result.value = "panic"))
    /\ [][pc["measurements"] = "temp" =>
            (pc'["measurements"] \in {"temp", "tempRet"} /\ ~exited')]_vars

\* C21 witness: three reads have failed and read_temperature has returned the
\* error that unwrap took
W_C21_UnwrapAfterThreeFailedReads ==
    /\ pc["measurements"] = "tempRet" /\ ~tempRes.ok /\ tempRes.val = 3
    /\ Len(tlog) = 3 /\ tlog[3].what = "read_err" /\ attempt = 3

====
